---- MODULE Spec2Model ----
(***************************************************************************)
(* gitopen: the four user actions of src/src/actions.rs (open_repo,        *)
(* open_commit, open_at_line_number, push_and_open_pr) as a sequential     *)
(* pipeline of git subprocess calls, string transformations and one        *)
(* browser launch.  Text is a sequence of one-character strings, so that   *)
(* prefix tests, slicing, trimming and the PR-URL regular expression are   *)
(* computed character by character.                                        *)
(***************************************************************************)
EXTENDS Integers, Sequences, FiniteSets, TLC

VARIABLES action, input, pc, log, result, local_branch_name,
          remote_branch_name, parsed_url, file_at_line, link,
          output_from_push_text

vars == <<action, input, pc, log, result, local_branch_name,
          remote_branch_name, parsed_url, file_at_line, link,
          output_from_push_text>>

(***************************************************************************)
(* Bounds of the enumerated inputs.                                        *)
(***************************************************************************)
\* number of fragments a push diagnostic text is assembled from
MaxPieces == 5
\* number of characters of a `path:line` argument
MaxArgLen == 4

(***************************************************************************)
(* Text constants.                                                         *)
(***************************************************************************)
BadByte == "0xFF"
WS == {" ", "\n", "\t"}
S_refs_heads == <<"r","e","f","s","/","h","e","a","d","s","/">>
S_refs_tags == <<"r","e","f","s","/","t","a","g","s","/">>
S_remote == <<"r","e","m","o","t","e",":">>
S_https == <<"h","t","t","p","s">>
S_https_scheme == <<"h","t","t","p","s",":","/","/">>
S_ftp_scheme == <<"f","t","p",":","/","/">>
S_git_at == <<"g","i","t","@">>
S_dot_git == <<".","g","i","t">>
S_commit == <<"/","c","o","m","m","i","t","/">>
S_blob == <<"/","b","l","o","b","/">>
S_anchor == <<"#","L">>
S_origin == <<"o","r","i","g","i","n">>
NL == <<"\n">>
SP == <<" ">>
Digits == <<"0","1","2","3","4","5","6","7","8","9">>

(***************************************************************************)
(* String helpers (str::starts_with, str::trim, slicing).                  *)
(***************************************************************************)
IsAt(t, i, p) == /\ i >= 1
                 /\ i + Len(p) - 1 <= Len(t)
                 /\ SubSeq(t, i, i + Len(p) - 1) = p

StartsWith(t, p) == IsAt(t, 1, p)

EndsWith(t, p) == Len(p) <= Len(t) /\ IsAt(t, Len(t) - Len(p) + 1, p)

From(t, i) == SubSeq(t, i, Len(t))

TrimEnd(t) ==
  LET keep == {n \in 0..Len(t) : n = 0 \/ t[n] \notin WS}
      last == CHOOSE n \in keep : \A m \in keep : m <= n
  IN SubSeq(t, 1, last)

TrimStart(t) ==
  LET keep == {n \in 1..(Len(t) + 1) : n = Len(t) + 1 \/ t[n] \notin WS}
      first == CHOOSE n \in keep : \A m \in keep : n <= m
  IN From(t, first)

Trim(t) == TrimEnd(TrimStart(t))

IsUtf8(b) == \A i \in 1..Len(b) : b[i] # BadByte

RECURSIVE Flatten(_)
Flatten(ps) == IF ps = <<>> THEN <<>> ELSE Head(ps) \o Flatten(Tail(ps))

SeqsUpTo(S, n) == UNION {[1..k -> S] : k \in 0..n}

Ok(v) == [ok |-> TRUE, val |-> v, err |-> "none"]
Err(e) == [ok |-> FALSE, val |-> <<>>, err |-> e]

(***************************************************************************)
(* Outcome of std::process::Command::output(): the process may fail to     *)
(* spawn; otherwise it yields an exit status and the captured bytes.  The  *)
(* code never reads the exit status.                                       *)
(***************************************************************************)
SpawnFailed == [spawned |-> FALSE, exit |-> 0, out |-> <<>>]

\* a query read from stdout: a failing git prints its message on stderr
\* and leaves stdout empty
Outcomes(texts) ==
  {SpawnFailed, [spawned |-> TRUE, exit |-> 1, out |-> <<>>]}
    \cup [spawned : {TRUE}, exit : {0}, out : texts]

\* the push, read from stderr: diagnostics are printed whatever the status
PushOutcomes(texts) ==
  {SpawnFailed} \cup [spawned : {TRUE}, exit : {0, 1}, out : texts]

\* variant: the refs/heads/ prefix test is left out
get_local_branch_name_unchecked(o) ==
  IF ~o.spawned THEN Err("IoError")
  ELSE IF ~IsUtf8(o.out) THEN Err("Utf8Error")
  ELSE Ok(Trim(From(o.out, 12)))

(***************************************************************************)
(* get_local_branch_name, actions.rs 10-22                                 *)
(***************************************************************************)
get_local_branch_name(o) ==
  IF ~o.spawned THEN Err("IoError")
  ELSE IF ~IsUtf8(o.out) THEN Err("Utf8Error")
  ELSE IF StartsWith(o.out, S_refs_heads)
       THEN Ok(Trim(From(o.out, 12)))
       ELSE Err("Other")

(***************************************************************************)
(* get_remote_branch_name, actions.rs 24-36                                *)
(***************************************************************************)
get_remote_branch_name(o) ==
  IF ~o.spawned THEN Err("IoError")
  ELSE IF ~IsUtf8(o.out) THEN Err("Utf8Error")
  ELSE Ok(Trim(o.out))

(***************************************************************************)
(* push_and_open_pr, actions.rs 86-91: the current branch text             *)
(***************************************************************************)
current_branch_text_stripped(o) ==
  IF ~o.spawned THEN Err("IoError")
  ELSE IF ~IsUtf8(o.out) THEN Err("Utf8Error")
  ELSE Ok(Trim(o.out))

(***************************************************************************)
(* push_and_open_pr, actions.rs 92-97: the push and its diagnostic text    *)
(***************************************************************************)
output_from_push(o) ==
  IF ~o.spawned THEN Err("IoError")
  ELSE IF ~IsUtf8(o.out) THEN Err("Utf8Error")
  ELSE Ok(o.out)

(***************************************************************************)
(* match_logic::parse_url_from_git (the URL Normalizer, spec 4.1):         *)
(* git@HOST:OWNER/REPO(.git)? and https://(user@)?HOST/OWNER/REPO(.git)?   *)
(* become https://HOST/OWNER/REPO; trailing whitespace is dropped.         *)
(***************************************************************************)
IndexOf(t, c) ==
  LET hits == {n \in 1..Len(t) : t[n] = c}
  IN IF hits = {} THEN 0 ELSE CHOOSE n \in hits : \A m \in hits : n <= m

LastIndexOf(t, c) ==
  LET hits == {n \in 1..Len(t) : t[n] = c}
  IN IF hits = {} THEN 0 ELSE CHOOSE n \in hits : \A m \in hits : m <= n

ValidName(t) ==
  /\ t # <<>>
  /\ \A n \in 1..Len(t) : t[n] \notin (WS \cup {"/", ":", "@"})

ValidOwnerRepo(p) ==
  LET k == IndexOf(p, "/")
  IN /\ k > 0
     /\ ValidName(SubSeq(p, 1, k - 1))
     /\ ValidName(From(p, k + 1))

StripGitSuffix(t) ==
  IF EndsWith(t, S_dot_git) THEN SubSeq(t, 1, Len(t) - 4) ELSE t

Canonical(host, path) == S_https_scheme \o host \o <<"/">> \o path

NormalizeSsh(t) ==
  LET rest == From(t, 5)
      k == IndexOf(rest, ":")
      host == SubSeq(rest, 1, k - 1)
      path == From(rest, k + 1)
  IN IF k > 0 /\ ValidName(host) /\ ValidOwnerRepo(path)
     THEN Ok(Canonical(host, path))
     ELSE Err("UnrecognizedFormat")

NormalizeHttps(t) ==
  LET rest == From(t, 9)
      k == IndexOf(rest, "/")
      auth == SubSeq(rest, 1, k - 1)
      a == IndexOf(auth, "@")
      host == From(auth, a + 1)
      path == From(rest, k + 1)
  IN IF k > 0 /\ ValidName(host) /\ ValidOwnerRepo(path)
     THEN Ok(Canonical(host, path))
     ELSE Err("UnrecognizedFormat")

parse_url_from_git(raw) ==
  LET t == TrimEnd(StripGitSuffix(TrimEnd(raw)))
  IN IF StartsWith(t, S_git_at) THEN NormalizeSsh(t)
     ELSE IF StartsWith(t, S_https_scheme) THEN NormalizeHttps(t)
     ELSE Err("UnrecognizedFormat")

\* variant: the configured URL is returned without normalizing it
get_parsed_url_raw(o) ==
  IF ~o.spawned THEN Err("IoError")
  ELSE IF ~IsUtf8(o.out) THEN Err("Utf8Error")
  ELSE IF parse_url_from_git(o.out).ok THEN Ok(TrimEnd(o.out))
  ELSE Err("UnrecognizedFormat")

(***************************************************************************)
(* get_parsed_url, actions.rs 39-53                                        *)
(***************************************************************************)
get_parsed_url(o) ==
  IF ~o.spawned THEN Err("IoError")
  ELSE IF ~IsUtf8(o.out) THEN Err("Utf8Error")
  ELSE parse_url_from_git(o.out)

(***************************************************************************)
(* match_logic::parse_path_and_line_arg (spec 4.2, contract 3)             *)
(***************************************************************************)
DigitValue(c) == (CHOOSE n \in 1..10 : Digits[n] = c) - 1

IsDigit(c) == \E n \in 1..10 : Digits[n] = c

RECURSIVE ParseDigits(_, _)
ParseDigits(t, acc) ==
  IF t = <<>> THEN acc
  ELSE ParseDigits(Tail(t), acc * 10 + DigitValue(Head(t)))

\* the suffix as a positive integer, or 0 when it is not one
ParsePositive(t) ==
  IF t # <<>> /\ \A n \in 1..Len(t) : IsDigit(t[n])
  THEN ParseDigits(t, 0)
  ELSE 0

parse_path_and_line_arg(arg, separator) ==
  LET k == LastIndexOf(arg, separator)
      prefix == SubSeq(arg, 1, k - 1)
      suffix == From(arg, k + 1)
      n == ParsePositive(suffix)
  IN IF k = 0 THEN Err("MissingSeparator")
     ELSE IF n < 1 THEN Err("InvalidLineNumber")
     ELSE IF prefix = <<>> THEN Err("EmptyPath")
     ELSE Ok([filepath |-> prefix, line_number |-> n])

(***************************************************************************)
(* match_logic::get_commit_link and get_line_number_link (spec 4.2,        *)
(* contracts 1 and 2)                                                      *)
(***************************************************************************)
RECURSIVE ToDigits(_)
ToDigits(n) ==
  IF n < 10 THEN <<Digits[n + 1]>>
  ELSE ToDigits(n \div 10) \o <<Digits[(n % 10) + 1]>>

get_commit_link(base, sha) == base \o S_commit \o sha

get_line_number_link(base, filepath, line, branch) ==
  IF filepath = <<>> THEN Err("EmptyPath")
  ELSE Ok(base \o S_blob \o branch \o <<"/">> \o filepath
            \o S_anchor \o ToDigits(line))

(***************************************************************************)
(* The PR-URL extraction of push_and_open_pr, actions.rs 96-100: the       *)
(* pattern is the marker "remote:", any characters of the same line        *)
(* (greedy), the group "https" plus the following non-whitespace run       *)
(* (greedy), any whitespace, and a newline.  Matching is leftmost-first;   *)
(* the any-character class excludes the newline, whitespace includes it.   *)
(***************************************************************************)
\* last index of the longest run of non-whitespace starting at j
NonWsEnd(t, j) ==
  CHOOSE e \in (j - 1)..Len(t) :
    /\ \A k \in j..e : t[k] \notin WS
    /\ e = Len(t) \/ t[e + 1] \in WS

\* \s*\n matches at s: the whitespace run starting at s holds a newline
WsThenNewline(t, s) ==
  \E n \in s..Len(t) : t[n] = "\n" /\ \A k \in s..n : t[k] \in WS

\* the pattern matches starting at i with group 1 starting at j
MatchAt(t, i, j) ==
  /\ IsAt(t, i, S_remote)
  /\ j >= i + 7
  /\ \A k \in (i + 7)..(j - 1) : t[k] # "\n"
  /\ IsAt(t, j, S_https)
  /\ WsThenNewline(t, NonWsEnd(t, j + 5) + 1)

MatchStarts(t) ==
  {i \in 1..Len(t) :
     IsAt(t, i, S_remote) /\ \E j \in (i + 7)..Len(t) : MatchAt(t, i, j)}

\* variant: the pattern without its marker
pr_re_captures_unmarked(t) ==
  LET js == {j \in 1..Len(t) :
               IsAt(t, j, S_https) /\ WsThenNewline(t, NonWsEnd(t, j + 5) + 1)}
  IN IF js = {} THEN Err("PrUrlNotFound")
     ELSE LET j0 == CHOOSE j \in js : \A m \in js : j <= m
          IN Ok(SubSeq(t, j0, NonWsEnd(t, j0 + 5)))

pr_re_captures(t) ==
  LET starts == MatchStarts(t)
  IN IF starts = {} THEN Err("PrUrlNotFound")
     ELSE LET i0 == CHOOSE i \in starts : \A m \in starts : i <= m
              js == {j \in (i0 + 7)..Len(t) : MatchAt(t, i0, j)}
              j0 == CHOOSE j \in js : \A m \in js : m <= j
          IN Ok(SubSeq(t, j0, NonWsEnd(t, j0 + 5)))

(***************************************************************************)
(* Inputs: what the git subprocesses print and what the user types.        *)
(***************************************************************************)
\* stdout of `git symbolic-ref HEAD`; empty on a detached head
BranchOuts ==
  { S_refs_heads \o <<"m">> \o NL,
    S_refs_heads \o SP \o <<"m">> \o SP \o NL,
    S_refs_heads \o <<"m">>,
    <<>>,
    S_refs_tags \o <<"m">> \o NL,
    SP \o S_refs_heads \o <<"m">> \o NL,
    <<"m">> \o NL,
    <<BadByte>> }

\* stdout of `git config --get branch.<b>.remote`; empty when unset
RemoteOuts == { S_origin \o NL, <<>>, <<BadByte>> }

Hosts == { <<"h">> }
Owners == { <<"o">> }
Repos == { <<"r">> }
UrlPrefixes(h) == { S_git_at \o h \o <<":">>,
                    S_https_scheme \o h \o <<"/">>,
                    S_https_scheme \o <<"u", "@">> \o h \o <<"/">> }

\* the well-formed remote URLs git can print
ValidUrlOuts ==
  { pre \o o \o <<"/">> \o r \o suf \o nl :
      pre \in UNION {UrlPrefixes(h) : h \in Hosts},
      o \in Owners, r \in Repos,
      suf \in {<<>>, S_dot_git}, nl \in {<<>>, NL} }

\* stdout of `git config --get remote.<r>.url`
UrlOuts ==
  ValidUrlOuts \cup
  { <<>>,
    S_ftp_scheme \o <<"h", "/", "o", "/", "r">> \o NL,
    S_git_at \o <<"h", ":", "o">> \o NL,
    <<"h", "/", "o", "/", "r">>,
    <<BadByte>> }

\* stdout of `git branch --show-current`; empty on a detached head
ShowCurrentOuts == { <<"m">> \o NL, <<>>, <<BadByte>> }

\* stderr of `git push origin <branch>`
Pieces == { S_remote, S_https, SP, NL }
PushTexts ==
  { Flatten(ps) : ps \in SeqsUpTo(Pieces, MaxPieces) } \cup { <<BadByte>> }

CommitShas == { <<"a", "b", "c">> }
ArgChars == { "a", ":", "0", "1" }
Args == SeqsUpTo(ArgChars, MaxArgLen)
\* the branch name handed to the file-and-line link builder
BranchNames == { <<"m">> }

(***************************************************************************)
(* The pipeline.                                                           *)
(***************************************************************************)
GitSteps == { "get_local_branch_name", "get_remote_branch_name",
              "get_parsed_url", "show_current", "push" }

Entry(step, arg, o) ==
  [step |-> step, arg |-> arg, spawned |-> o.spawned,
   exit |-> o.exit, out |-> o.out]

Pure(text) == [spawned |-> TRUE, exit |-> 0, out |-> text]

NoFile == [filepath |-> <<>>, line_number |-> 0]

\* variant: open_at_line_number queries git before parsing its argument
FirstStep_git_first(a) ==
  CASE a = "open_repo" -> "get_local_branch_name"
    [] a = "open_commit" -> "get_local_branch_name"
    [] a = "open_at_line_number" -> "get_local_branch_name"
    [] a = "push_and_open_pr" -> "show_current"

\* the first statement of each action
FirstStep(a) ==
  CASE a = "open_repo" -> "get_local_branch_name"
    [] a = "open_commit" -> "get_local_branch_name"
    [] a = "open_at_line_number" -> "parse_path_and_line_arg"
    [] a = "push_and_open_pr" -> "show_current"

\* variant: the remote name is not looked up
NextStep_skip_remote(a, p) ==
  CASE p = "parse_path_and_line_arg" -> "get_local_branch_name"
    [] p = "get_local_branch_name" -> "get_parsed_url"
    [] p = "get_remote_branch_name" -> "get_parsed_url"
    [] p = "get_parsed_url" ->
         IF a = "open_repo" THEN "open"
         ELSE IF a = "open_commit" THEN "get_commit_link"
         ELSE "get_line_number_link"
    [] p = "get_commit_link" -> "open"
    [] p = "get_line_number_link" -> "open"
    [] p = "show_current" -> "push"
    [] p = "push" -> "captures"
    [] p = "captures" -> "open"
    [] p = "open" -> "done"

\* the statement that follows a successful one
NextStep(a, p) ==
  CASE p = "parse_path_and_line_arg" -> "get_local_branch_name"
    [] p = "get_local_branch_name" -> "get_remote_branch_name"
    [] p = "get_remote_branch_name" -> "get_parsed_url"
    [] p = "get_parsed_url" ->
         IF a = "open_repo" THEN "open"
         ELSE IF a = "open_commit" THEN "get_commit_link"
         ELSE "get_line_number_link"
    [] p = "get_commit_link" -> "open"
    [] p = "get_line_number_link" -> "open"
    [] p = "show_current" -> "push"
    [] p = "push" -> "captures"
    [] p = "captures" -> "open"
    [] p = "open" -> "done"

\* the `?` operator: continue on Ok, return the error otherwise
Propagate(r) ==
  IF r.ok THEN /\ pc' = NextStep(action, pc)
               /\ UNCHANGED result
          ELSE /\ pc' = "done"
               /\ result' = r.err

Init ==
  /\ action = "none"
  /\ input = <<>>
  /\ pc = "idle"
  /\ log = <<>>
  /\ result = "running"
  /\ local_branch_name = <<>>
  /\ remote_branch_name = <<>>
  /\ parsed_url = <<>>
  /\ file_at_line = NoFile
  /\ link = <<>>
  /\ output_from_push_text = <<>>

Call(a, i) ==
  /\ pc = "idle"
  /\ action' = a
  /\ input' = i
  /\ pc' = FirstStep(a)
  /\ UNCHANGED <<log, result, local_branch_name, remote_branch_name,
                 parsed_url, file_at_line, link, output_from_push_text>>

open_repo == Call("open_repo", <<>>)

open_commit == \E sha \in CommitShas : Call("open_commit", sha)

open_at_line_number == \E a \in Args : Call("open_at_line_number", a)

push_and_open_pr == Call("push_and_open_pr", <<>>)

\* variant: another separator character
Separator_zero == "0"

\* the separator open_at_line_number passes, actions.rs 74
Separator == ":"

\* actions.rs 74
Step_parse_path_and_line_arg ==
  /\ pc = "parse_path_and_line_arg"
  /\ LET r == parse_path_and_line_arg(input, Separator)
     IN /\ log' = Append(log, Entry("parse_path_and_line_arg", input, Pure(<<>>)))
        /\ file_at_line' = IF r.ok THEN r.val ELSE file_at_line
        /\ Propagate(r)
  /\ UNCHANGED <<action, input, local_branch_name, remote_branch_name,
                 parsed_url, link, output_from_push_text>>

\* actions.rs 56, 64, 75
Step_get_local_branch_name ==
  /\ pc = "get_local_branch_name"
  /\ \E o \in Outcomes(BranchOuts) :
       LET r == get_local_branch_name(o)
       IN /\ log' = Append(log, Entry("get_local_branch_name", <<>>, o))
          /\ local_branch_name' = IF r.ok THEN r.val ELSE local_branch_name
          /\ Propagate(r)
  /\ UNCHANGED <<action, input, remote_branch_name, parsed_url,
                 file_at_line, link, output_from_push_text>>

\* actions.rs 57, 65, 76
Step_get_remote_branch_name ==
  /\ pc = "get_remote_branch_name"
  /\ \E o \in Outcomes(RemoteOuts) :
       LET r == get_remote_branch_name(o)
       IN /\ log' = Append(log, Entry("get_remote_branch_name",
                                      local_branch_name, o))
          /\ remote_branch_name' = IF r.ok THEN r.val ELSE remote_branch_name
          /\ Propagate(r)
  /\ UNCHANGED <<action, input, local_branch_name, parsed_url,
                 file_at_line, link, output_from_push_text>>

\* actions.rs 58, 66, 77
Step_get_parsed_url ==
  /\ pc = "get_parsed_url"
  /\ \E o \in Outcomes(UrlOuts) :
       LET r == get_parsed_url(o)
       IN /\ log' = Append(log, Entry("get_parsed_url",
                                      remote_branch_name, o))
          /\ parsed_url' = IF r.ok THEN r.val ELSE parsed_url
          /\ link' = IF r.ok /\ action = "open_repo" THEN r.val ELSE link
          /\ Propagate(r)
  /\ UNCHANGED <<action, input, local_branch_name, remote_branch_name,
                 file_at_line, output_from_push_text>>

\* actions.rs 67
Step_get_commit_link ==
  /\ pc = "get_commit_link"
  /\ link' = get_commit_link(parsed_url, input)
  /\ log' = Append(log, Entry("get_commit_link", parsed_url, Pure(link')))
  /\ Propagate(Ok(link'))
  /\ UNCHANGED <<action, input, local_branch_name, remote_branch_name,
                 parsed_url, file_at_line, output_from_push_text>>

\* actions.rs 78-79
Step_get_line_number_link ==
  /\ pc = "get_line_number_link"
  /\ \E b \in BranchNames :
       LET r == get_line_number_link(parsed_url, file_at_line.filepath,
                                     file_at_line.line_number, b)
       IN /\ log' = Append(log, Entry("get_line_number_link", parsed_url,
                                      Pure(r.val)))
          /\ link' = IF r.ok THEN r.val ELSE link
          /\ Propagate(r)
  /\ UNCHANGED <<action, input, local_branch_name, remote_branch_name,
                 parsed_url, file_at_line, output_from_push_text>>

\* actions.rs 86-91
Step_show_current ==
  /\ pc = "show_current"
  /\ \E o \in Outcomes(ShowCurrentOuts) :
       LET r == current_branch_text_stripped(o)
       IN /\ log' = Append(log, Entry("show_current", <<>>, o))
          /\ local_branch_name' = IF r.ok THEN r.val ELSE local_branch_name
          /\ Propagate(r)
  /\ UNCHANGED <<action, input, remote_branch_name, parsed_url,
                 file_at_line, link, output_from_push_text>>

\* actions.rs 92-97
Step_push ==
  /\ pc = "push"
  /\ \E o \in PushOutcomes(PushTexts) :
       LET r == output_from_push(o)
       IN /\ log' = Append(log, Entry("push", local_branch_name, o))
          /\ output_from_push_text' =
               IF r.ok THEN r.val ELSE output_from_push_text
          /\ Propagate(r)
  /\ UNCHANGED <<action, input, local_branch_name, remote_branch_name,
                 parsed_url, file_at_line, link>>

\* actions.rs 98-100
Step_captures ==
  /\ pc = "captures"
  /\ LET r == pr_re_captures(output_from_push_text)
     IN /\ log' = Append(log, Entry("captures", output_from_push_text,
                                    Pure(r.val)))
        /\ link' = IF r.ok THEN r.val ELSE link
        /\ Propagate(r)
  /\ UNCHANGED <<action, input, local_branch_name, remote_branch_name,
                 parsed_url, file_at_line, output_from_push_text>>

\* webbrowser::open, actions.rs 59-60, 69-70, 81-82, 101-102
Step_open ==
  /\ pc = "open"
  /\ \E launched \in BOOLEAN :
       /\ log' = Append(log, [step |-> "open", arg |-> link,
                              spawned |-> launched, exit |-> 0,
                              out |-> <<>>])
       /\ result' = IF launched THEN "Ok" ELSE "BrowserLaunchError"
       /\ pc' = NextStep(action, pc)
  /\ UNCHANGED <<action, input, local_branch_name, remote_branch_name,
                 parsed_url, file_at_line, link, output_from_push_text>>

Next ==
  \/ open_repo
  \/ open_commit
  \/ open_at_line_number
  \/ push_and_open_pr
  \/ Step_parse_path_and_line_arg
  \/ Step_get_local_branch_name
  \/ Step_get_remote_branch_name
  \/ Step_get_parsed_url
  \/ Step_get_commit_link
  \/ Step_get_line_number_link
  \/ Step_show_current
  \/ Step_push
  \/ Step_captures
  \/ Step_open

Spec == Init /\ [][Next]_vars

(***************************************************************************)
(* Shape of the state.                                                     *)
(***************************************************************************)
Steps == GitSteps \cup { "parse_path_and_line_arg", "get_commit_link",
                         "get_line_number_link", "captures", "open" }

TypeOK ==
  /\ action \in { "none", "open_repo", "open_commit",
                  "open_at_line_number", "push_and_open_pr" }
  /\ pc \in Steps \cup { "idle", "done" }
  /\ \A n \in 1..Len(log) : log[n].step \in Steps
  /\ result \in { "running", "Ok", "IoError", "Utf8Error", "Other",
                  "UnrecognizedFormat", "MissingSeparator", "EmptyPath",
                  "InvalidLineNumber", "PrUrlNotFound",
                  "BrowserLaunchError" }

(***************************************************************************)
(* Vocabulary of the properties.                                           *)
(***************************************************************************)
OpenActions == { "open_repo", "open_commit", "open_at_line_number" }

StepNames == [n \in 1..Len(log) |-> log[n].step]

Ran(step) == \E n \in 1..Len(log) : log[n].step = step

GitRan == \E n \in 1..Len(log) : log[n].step \in GitSteps

BrowserInvoked == Ran("open")

Failed == pc = "done" /\ result \notin { "running", "Ok" }

IsPrefix(a, b) == Len(a) <= Len(b) /\ SubSeq(b, 1, Len(a)) = a

AllWs(t) == \A n \in 1..Len(t) : t[n] \in WS

NoWs(t) == \A n \in 1..Len(t) : t[n] \notin WS

\* r is t without its leading and trailing whitespace
IsTrimOf(r, t) ==
  /\ r = <<>> \/ (r[1] \notin WS /\ r[Len(r)] \notin WS)
  /\ \E a \in 0..Len(t) :
       /\ a + Len(r) <= Len(t)
       /\ AllWs(SubSeq(t, 1, a))
       /\ SubSeq(t, a + 1, a + Len(r)) = r
       /\ AllWs(From(t, a + Len(r) + 1))

LineStart(t, i) == i = 1 \/ (i > 1 /\ i <= Len(t) + 1 /\ t[i - 1] = "\n")

\* the non-whitespace word of t that starts at j
WordAt(t, j) == SubSeq(t, j, NonWsEnd(t, j))

(***************************************************************************)
(* C1: in push_and_open_pr, when the diagnostic text has a line made of    *)
(* `remote:`, some spaces and a URL beginning with `https`, followed by a  *)
(* newline, the URL handed to the browser is exactly that URL.             *)
(***************************************************************************)
\* the URLs of the lines `remote:<spaces><https-URL>\n` of t
PrLineUrls(t) ==
  { WordAt(t, j) : j \in
      { j \in 1..Len(t) :
          /\ IsAt(t, j, S_https)
          /\ NonWsEnd(t, j) < Len(t) /\ t[NonWsEnd(t, j) + 1] = "\n"
          /\ \E i \in 1..j :
               /\ LineStart(t, i)
               /\ IsAt(t, i, S_remote)
               /\ j > i + 7
               /\ \A k \in (i + 7)..(j - 1) : t[k] = " " } }

C1_ExactPrUrl ==
  (action = "push_and_open_pr" /\ Ran("captures")
     /\ PrLineUrls(output_from_push_text) # {})
  => /\ result # "PrUrlNotFound"
     /\ link \in PrLineUrls(output_from_push_text)

(***************************************************************************)
(* C2: in push_and_open_pr, when no line of the diagnostic text has        *)
(* `remote:` followed on the same line by `https`, the action ends in the  *)
(* PR-URL-not-found error and the browser opener is never invoked.         *)
(***************************************************************************)
HasMarkerLine(t) ==
  \E i \in 1..Len(t), j \in 1..Len(t) :
    /\ IsAt(t, i, S_remote)
    /\ j >= i + 7
    /\ IsAt(t, j, S_https)
    /\ \A k \in i..j : t[k] # "\n"

C2_NoMatchNoBrowser ==
  (action = "push_and_open_pr" /\ Ran("captures")
     /\ ~HasMarkerLine(output_from_push_text))
  => /\ pc = "done"
     /\ result = "PrUrlNotFound"
     /\ ~BrowserInvoked

C2_Witness ==
  /\ action = "push_and_open_pr"
  /\ Ran("captures")
  /\ ~HasMarkerLine(output_from_push_text)
  /\ \E j \in 1..Len(output_from_push_text) :
       IsAt(output_from_push_text, j, S_https \o NL)
  /\ result = "PrUrlNotFound"

(***************************************************************************)
(* C3: the URL push_and_open_pr extracts is the first URL beginning with   *)
(* `https` on a line starting with `remote:`, ending at the next           *)
(* whitespace or at the end of the text.                                   *)
(***************************************************************************)
\* positions of an `https` that follows a `remote:` opening its line
MarkerUrlStarts(t) ==
  { j \in 1..Len(t) :
      /\ IsAt(t, j, S_https)
      /\ \E i \in 1..j :
           /\ LineStart(t, i)
           /\ IsAt(t, i, S_remote)
           /\ j >= i + 7
           /\ \A k \in i..j : t[k] # "\n" }

FirstMarkerUrl(t) ==
  LET js == MarkerUrlStarts(t)
      j0 == CHOOSE j \in js : \A m \in js : j <= m
  IN WordAt(t, j0)

C3_FirstMarkerUrl ==
  (action = "push_and_open_pr" /\ Ran("captures")
     /\ MarkerUrlStarts(output_from_push_text) # {})
  => /\ result # "PrUrlNotFound"
     /\ link = FirstMarkerUrl(output_from_push_text)

(***************************************************************************)
(* C4: in every action, a failing step (a git subprocess that cannot be    *)
(* run, exits non-zero or prints non-UTF8 bytes, a failing parse, a        *)
(* failing browser launch) is the last step of the action, and the action  *)
(* ends in an error.                                                       *)
(***************************************************************************)
StepFailed(e) ==
  \/ ~e.spawned
  \/ e.exit # 0
  \/ ~IsUtf8(e.out)

C4_AbortAtFailure ==
  \A n \in 1..Len(log) :
    StepFailed(log[n]) => (n = Len(log) /\ Failed)

(***************************************************************************)
(* C7: in push_and_open_pr, the push is run only with a branch name that   *)
(* was obtained: on a detached head no push subprocess is run.             *)
(***************************************************************************)
C7_NoPushWhenDetached ==
  \A n \in 1..Len(log) :
    (log[n].step = "push" /\ log[n].spawned) => log[n].arg # <<>>

(***************************************************************************)
(* C5: in open_repo, open_commit and open_at_line_number the steps run in  *)
(* the order read local branch, read remote name, read remote URL and      *)
(* normalize it, build the link, open the browser; each at most once; the  *)
(* browser is invoked only after every earlier step returned a value, and  *)
(* with the URL built from what those steps produced.                      *)
(***************************************************************************)
Expected(a) ==
  CASE a = "open_repo" ->
         <<"get_local_branch_name", "get_remote_branch_name",
           "get_parsed_url", "open">>
    [] a = "open_commit" ->
         <<"get_local_branch_name", "get_remote_branch_name",
           "get_parsed_url", "get_commit_link", "open">>
    [] a = "open_at_line_number" ->
         <<"parse_path_and_line_arg", "get_local_branch_name",
           "get_remote_branch_name", "get_parsed_url",
           "get_line_number_link", "open">>

ReturnedValue(e) ==
  /\ e.spawned
  /\ IsUtf8(e.out)
  /\ e.step = "get_local_branch_name" => StartsWith(e.out, S_refs_heads)
  /\ e.step = "get_parsed_url" => parse_url_from_git(e.out).ok

BuiltFromOutputs ==
  LET k == IF action = "open_at_line_number" THEN 1 ELSE 0
      b == log[k + 1]
      r == log[k + 2]
      u == log[k + 3]
      o == log[Len(log)]
      base == parse_url_from_git(u.out).val
  IN /\ IsTrimOf(r.arg, From(b.out, 12))
     /\ IsTrimOf(u.arg, r.out)
     /\ CASE action = "open_repo" -> o.arg = base
          [] action = "open_commit" -> o.arg = base \o S_commit \o input
          [] action = "open_at_line_number" ->
               \E br \in BranchNames :
                 o.arg = base \o S_blob \o br \o <<"/">>
                           \o file_at_line.filepath \o S_anchor
                           \o ToDigits(file_at_line.line_number)

C6_DetachedHead ==
  action \in OpenActions =>
    \A n \in 1..Len(log) :
      (log[n].step = "get_local_branch_name" /\ log[n].spawned
         /\ IsUtf8(log[n].out))
      => IF StartsWith(log[n].out, S_refs_heads)
         THEN IsTrimOf(local_branch_name, From(log[n].out, 12))
         ELSE /\ n = Len(log)
              /\ Failed
              /\ ~Ran("get_remote_branch_name")
              /\ ~Ran("get_parsed_url")
              /\ ~BrowserInvoked

C6_Witness ==
  /\ action \in OpenActions
  /\ Ran("get_local_branch_name")
  /\ log[Len(log)].step = "get_local_branch_name"
  /\ log[Len(log)].spawned
  /\ log[Len(log)].out = <<>>
  /\ Failed

(***************************************************************************)
(* C8: parse_path_and_line splits the argument at the last separator: no   *)
(* separator gives MissingSeparator, an empty prefix EmptyPath, a suffix   *)
(* that is not a positive integer InvalidLineNumber; otherwise the result  *)
(* is the prefix and the suffix's value, which is at least 1.              *)
(***************************************************************************)
HasColon(a) == \E n \in 1..Len(a) : a[n] = ":"

LastColon(a) ==
  CHOOSE k \in 1..Len(a) :
    a[k] = ":" /\ \A m \in (k + 1)..Len(a) : a[m] # ":"

ArgPrefix(a) == SubSeq(a, 1, LastColon(a) - 1)

ArgSuffix(a) == From(a, LastColon(a) + 1)

IsPositiveInteger(t) ==
  /\ t # <<>>
  /\ \A n \in 1..Len(t) : t[n] \in {Digits[d] : d \in 1..10}
  /\ \E n \in 1..Len(t) : t[n] # "0"

\* t without its leading zeros
Significant(t) ==
  From(t, CHOOSE k \in 1..Len(t) :
            t[k] # "0" /\ \A m \in 1..(k - 1) : t[m] = "0")

ValidArg(a) ==
  HasColon(a) /\ ArgPrefix(a) # <<>> /\ IsPositiveInteger(ArgSuffix(a))

ParseErrors == { "MissingSeparator", "EmptyPath", "InvalidLineNumber" }

C8_ParsePathAndLine ==
  (action = "open_at_line_number" /\ Ran("parse_path_and_line_arg")) =>
    IF ~HasColon(input)
    THEN Failed /\ result = "MissingSeparator"
    ELSE IF ArgPrefix(input) = <<>> /\ IsPositiveInteger(ArgSuffix(input))
    THEN Failed /\ result = "EmptyPath"
    ELSE IF ArgPrefix(input) # <<>> /\ ~IsPositiveInteger(ArgSuffix(input))
    THEN Failed /\ result = "InvalidLineNumber"
    ELSE IF ArgPrefix(input) = <<>>
    THEN Failed /\ result \in { "EmptyPath", "InvalidLineNumber" }
    ELSE /\ result \notin ParseErrors
         /\ file_at_line.filepath = ArgPrefix(input)
         /\ file_at_line.line_number >= 1
         /\ ToDigits(file_at_line.line_number) = Significant(ArgSuffix(input))

C8_Witness ==
  /\ action = "open_at_line_number"
  /\ Ran("parse_path_and_line_arg")
  /\ \E n \in 1..Len(file_at_line.filepath) : file_at_line.filepath[n] = ":"
  /\ file_at_line.line_number >= 1

(***************************************************************************)
(* C9: for every SSH-style or HTTPS-style remote URL, with or without the  *)
(* .git suffix and the trailing newline, the normalized URL is             *)
(* https://H/O/R, and normalizing it again leaves it unchanged.            *)
(***************************************************************************)
IsCanonicalOf(y, x) ==
  \E h \in Hosts, o \in Owners, r \in Repos :
    /\ y = S_https_scheme \o h \o <<"/">> \o o \o <<"/">> \o r
    /\ \E pre \in UrlPrefixes(h), suf \in {<<>>, S_dot_git}, nl \in {<<>>, NL} :
         x = pre \o o \o <<"/">> \o r \o suf \o nl

C10_ParseBeforeGit ==
  action = "open_at_line_number" =>
    /\ Len(log) >= 1 => log[1].step = "parse_path_and_line_arg"
    /\ ~ValidArg(input) =>
         /\ ~GitRan
         /\ ~BrowserInvoked
         /\ Ran("parse_path_and_line_arg") => Failed

C10_Witness ==
  /\ action = "open_at_line_number"
  /\ ~ValidArg(input)
  /\ StepNames = <<"parse_path_and_line_arg">>
  /\ Failed
  /\ result \in ParseErrors

====
